---- MODULE Spec2Model ----
(***************************************************************************)
(* Blogicum (blog/models.py, blog/forms.py, blog/views.py): the entity     *)
(* store (User, Category, Post, Comment), the published-post filter, the   *)
(* paginator call and the request handlers, as a state machine.  One       *)
(* action is one HTTP request handled from start to finish, or one         *)
(* administrative change of the datastore.                                 *)
(***************************************************************************)
EXTENDS Integers, Sequences, FiniteSets, TLC

\* ------------------------------------------------------------------ bounds
MaxUsers == 2
MaxCategories == 1
MaxLocations == 1
MaxPosts == 2
MaxComments == 1
MaxTime == 2
MaxPage == 3
MaxListPosts == 14

\* --------------------------------------------------------- program constants
\* Paginator(posts, 10)
PER_PAGE == 10
\* null=True: a NULL foreign key
NULL == 0
\* request.user of a request without a session (is_authenticated is False)
Anonymous == 0

VARIABLES users, categories, locations, posts, comments, next_post_id,
          next_comment_id, now, resp

vars == <<users, categories, locations, posts, comments, next_post_id,
          next_comment_id, now, resp>>

store == <<users, categories, locations, posts, comments, next_post_id,
           next_comment_id>>

\* ------------------------------------------------------------ input domains
UserIds == 1..MaxUsers
CategoryIds == 1..MaxCategories
LocationIds == 1..MaxLocations
PostIds == 1..MaxPosts
CommentIds == 1..MaxComments
Times == 1..MaxTime
Methods == {"GET", "POST", "HEAD"}
Texts == {"a", "b"}

Usernames == UserIds

\* request.user: a stored user, or the anonymous user
Actors == DOMAIN users \cup {Anonymous}

\* ProfileEditForm: username (first_name, last_name and email carry no logic)
ProfileEditForms == [username : Usernames]

\* PostForm: is_published, pub_date, category, location (title, text and image
\* carry no logic and are left out); NULL is a blank choice
PostForms == [is_published : BOOLEAN, pub_date : Times,
              category : {NULL} \cup CategoryIds,
              location : {NULL} \cup LocationIds]

\* CommentForm: text; "" is a blank text
CommentForms == [text : Texts \cup {""}]

\* request.GET.get('page'): absent or not a number (is_int FALSE), or a number
NoParam == [is_int |-> FALSE, n |-> 0]

PageParams == {NoParam}
              \cup {[is_int |-> TRUE, n |-> k] : k \in (0 - 1)..MaxPage}

\* ------------------------------------------------------------------ filters
\* The filter without its pub_date__lte condition
PublishedManager_no_date ==
  {p \in DOMAIN posts :
     /\ posts[p].is_published
     /\ posts[p].category \in DOMAIN categories
     /\ categories[posts[p].category].is_published}

\* The filter without its category__is_published condition
PublishedManager_no_category ==
  {p \in DOMAIN posts :
     /\ posts[p].is_published
     /\ posts[p].category \in DOMAIN categories
     /\ posts[p].pub_date <= now}

\* PublishedManager.get_queryset: the join on category drops a NULL category
PublishedManager ==
  {p \in DOMAIN posts :
     /\ posts[p].is_published
     /\ posts[p].category \in DOMAIN categories
     /\ categories[posts[p].category].is_published
     /\ posts[p].pub_date <= now}

\* request.user.is_authenticated
is_authenticated(actor) == actor # Anonymous

\* A view that lost its decorator
login_required_missing(actor) == TRUE

\* @login_required: the view runs only for an authenticated user
login_required(actor) == is_authenticated(actor)

\* ModelForm.is_valid for PostForm: category is required and must be a stored
\* Category (ModelChoiceField over Category.objects); location may be blank
\* (blank=True) and otherwise must be a stored Location
PostForm_is_valid(form) ==
  /\ form.category \in DOMAIN categories
  /\ form.location \in {NULL} \cup DOMAIN locations

\* A PostForm whose fields include author: the save rebinds the author
PostForm_save_rebinds_author(instance, form) ==
  [instance EXCEPT !.is_published = form.is_published,
                   !.pub_date = form.pub_date,
                   !.category = form.category,
                   !.location = form.location,
                   !.author = 1 + (instance.author % MaxUsers)]

\* ModelForm.save for PostForm: the fields of Meta.fields are written to the
\* instance, every other field of it is left as it is
PostForm_save(instance, form) ==
  [instance EXCEPT !.is_published = form.is_published,
                   !.pub_date = form.pub_date,
                   !.category = form.category,
                   !.location = form.location]

\* Post(): the instance of a PostForm without one, no author yet
BlankPost == [author |-> NULL, is_published |-> TRUE, pub_date |-> 1,
              category |-> NULL, location |-> NULL]

\* ModelForm.is_valid for CommentForm: text is required
CommentForm_is_valid(form) == form.text # ""

\* ModelForm.is_valid for ProfileEditForm: username is unique among the others
ProfileEditForm_is_valid(actor, form) ==
  \A u \in DOMAIN users \ {actor} : users[u] # form.username

\* ---------------------------------------------------------------- paginator
\* order_by('-pub_date'): equal pub_date leaves the order to the database;
\* tie is the order it falls back to
RECURSIVE order_by_pub_date(_, _)
order_by_pub_date(S, tie) ==
  IF S = {} THEN <<>>
  ELSE LET first == CHOOSE p \in S : \A q \in S \ {p} :
                       \/ posts[p].pub_date > posts[q].pub_date
                       \/ /\ posts[p].pub_date = posts[q].pub_date
                          /\ IF tie = "asc" THEN p < q ELSE p > q
       IN  <<first>> \o order_by_pub_date(S \ {first}, tie)

TieOrders == {"asc", "desc"}

\* Paginator.num_pages with allow_empty_first_page: ceil(max(1, count) / 10)
num_pages(items) ==
  IF Len(items) = 0 THEN 1 ELSE (Len(items) + PER_PAGE - 1) \div PER_PAGE

\* Paginator.page(number): items[bottom:top]
page(items, number) ==
  LET bottom == (number - 1) * PER_PAGE
      top == IF bottom + PER_PAGE >= Len(items) THEN Len(items)
             ELSE bottom + PER_PAGE
  IN  [number |-> number,
       object_list |-> SubSeq(items, bottom + 1, top),
       count |-> Len(items),
       num_pages |-> num_pages(items),
       param |-> NoParam]

\* A paginator that answers a number below 1 with the first page
get_page_first_below(items, number) ==
  IF ~number.is_int \/ number.n < 1 THEN page(items, 1)
  ELSE IF number.n > num_pages(items) THEN page(items, num_pages(items))
  ELSE page(items, number.n)

\* Paginator.get_page(number): PageNotAnInteger gives page 1, EmptyPage (a
\* number below 1 or above num_pages) gives the last page
get_page(items, number) ==
  IF ~number.is_int THEN page(items, 1)
  ELSE IF number.n < 1 \/ number.n > num_pages(items)
       THEN page(items, num_pages(items))
       ELSE page(items, number.n)

NoPage == [number |-> 0, object_list |-> <<>>, count |-> 0, num_pages |-> 0,
           param |-> NoParam]

\* ---------------------------------------------------------------- responses
\* The request handled last and the response to it.  post_id, comment_id and
\* name are the URL arguments (0 where the URL has none), to is the post id or
\* username a redirect leads to, page is the page_obj of a listing.
Response(h, actor, method, post_id, comment_id, name, out, to, pg) ==
  [h |-> h, actor |-> actor, method |-> method, post_id |-> post_id,
   comment_id |-> comment_id, name |-> name, out |-> out, to |-> to,
   page |-> pg]

\* No request is being handled: the last response has been returned
NoResponse == Response("none", Anonymous, "GET", 0, 0, 0, "none", 0, NoPage)

\* No request is being handled
Idle == resp = NoResponse

\* ----------------------------------------------------------------- the store
Init ==
  /\ users = [u \in UserIds |-> u]
  /\ categories = [c \in CategoryIds |-> [is_published |-> TRUE]]
  /\ locations = <<>>
  /\ posts = <<>>
  /\ comments = <<>>
  /\ next_post_id = 1
  /\ next_comment_id = 1
  /\ now = 1
  /\ resp = NoResponse

\* Restriction of a table to the rows that are kept
Keep(table, ids) == [i \in ids |-> table[i]]

\* A Comment.post that does not cascade
CommentsOfPosts_no_cascade(ps) == {}

\* on_delete=models.CASCADE of Comment.post: the comments of the deleted posts
CommentsOfPosts(ps) == {c \in DOMAIN comments : comments[c].post \in ps}

\* request.user.username; the anonymous user has an empty one
username_of(actor) == IF actor = Anonymous THEN NULL ELSE users[actor]

\* An ownership check that lets everyone through
not_post_author_unchecked(actor, post_id) == FALSE

\* request.user != post.author
not_post_author(actor, post_id) == actor # posts[post_id].author

\* An ownership check that lets everyone through
not_comment_author_unchecked(actor, comment_id) == FALSE

\* request.user != comment.author
not_comment_author(actor, comment_id) == actor # comments[comment_id].author

\* -------------------------------------------------------- mutation handlers
\* create_post
create_post(actor, method) ==
  /\ IF ~login_required(actor)
     THEN /\ resp' = Response("create_post", actor, method, 0, 0, 0,
                              "RedirectLogin", 0, NoPage)
          /\ UNCHANGED store
     ELSE IF method = "POST"
     THEN \E form \in PostForms :
     IF PostForm_is_valid(form)
     THEN /\ next_post_id <= MaxPosts
          /\ posts' = [p \in DOMAIN posts \cup {next_post_id} |->
                         IF p = next_post_id
                         THEN [PostForm_save(BlankPost, form)
                                 EXCEPT !.author = actor]
                         ELSE posts[p]]
          /\ next_post_id' = next_post_id + 1
          /\ resp' = Response("create_post", actor, method, 0, 0, 0,
                              "RedirectProfile", username_of(actor), NoPage)
          /\ UNCHANGED <<users, categories, locations, comments, next_comment_id>>
     ELSE /\ resp' = Response("create_post", actor, method, 0, 0, 0,
                              "Render", 0, NoPage)
          /\ UNCHANGED store
     ELSE /\ resp' = Response("create_post", actor, method, 0, 0, 0,
                              "Render", 0, NoPage)
          /\ UNCHANGED store
  /\ UNCHANGED now

\* edit_post
edit_post(actor, method, post_id) ==
  /\ IF ~login_required(actor)
     THEN /\ resp' = Response("edit_post", actor, method, post_id, 0, 0,
                              "RedirectLogin", 0, NoPage)
          /\ UNCHANGED store
     ELSE IF post_id \notin DOMAIN posts
     THEN /\ resp' = Response("edit_post", actor, method, post_id, 0, 0,
                              "NotFound", 0, NoPage)
          /\ UNCHANGED store
     ELSE IF not_post_author(actor, post_id)
     THEN /\ resp' = Response("edit_post", actor, method, post_id, 0, 0,
                              "RedirectDetail", post_id, NoPage)
          /\ UNCHANGED store
     ELSE IF method = "POST"
     THEN \E form \in PostForms :
     IF PostForm_is_valid(form)
     THEN /\ posts' = [posts EXCEPT
                         ![post_id] = PostForm_save(posts[post_id], form)]
          /\ resp' = Response("edit_post", actor, method, post_id, 0, 0,
                              "RedirectDetail", post_id, NoPage)
          /\ UNCHANGED <<users, categories, locations, comments, next_post_id,
                         next_comment_id>>
     ELSE /\ resp' = Response("edit_post", actor, method, post_id, 0, 0,
                              "Render", 0, NoPage)
          /\ UNCHANGED store
     ELSE /\ resp' = Response("edit_post", actor, method, post_id, 0, 0,
                              "Render", 0, NoPage)
          /\ UNCHANGED store
  /\ UNCHANGED now

\* add_comment
add_comment(actor, method, post_id) ==
  /\ IF ~login_required(actor)
     THEN /\ resp' = Response("add_comment", actor, method, post_id, 0, 0,
                              "RedirectLogin", 0, NoPage)
          /\ UNCHANGED store
     ELSE IF post_id \notin DOMAIN posts
     THEN /\ resp' = Response("add_comment", actor, method, post_id, 0, 0,
                              "NotFound", 0, NoPage)
          /\ UNCHANGED store
     ELSE /\ IF method = "POST"
             THEN \E form \in CommentForms :
             IF CommentForm_is_valid(form)
             THEN /\ next_comment_id <= MaxComments
                  /\ comments' =
                       [c \in DOMAIN comments \cup {next_comment_id} |->
                          IF c = next_comment_id
                          THEN [post |-> post_id, author |-> actor,
                                text |-> form.text]
                          ELSE comments[c]]
                  /\ next_comment_id' = next_comment_id + 1
                  /\ UNCHANGED <<users, categories, locations, posts, next_post_id>>
             ELSE UNCHANGED store
             ELSE UNCHANGED store
          /\ resp' = Response("add_comment", actor, method, post_id, 0, 0,
                              "RedirectDetail", post_id, NoPage)
  /\ UNCHANGED now

\* edit_comment
edit_comment(actor, method, post_id, comment_id) ==
  /\ IF ~login_required(actor)
     THEN /\ resp' = Response("edit_comment", actor, method, post_id,
                              comment_id, 0, "RedirectLogin", 0, NoPage)
          /\ UNCHANGED store
     ELSE IF comment_id \notin DOMAIN comments
     THEN /\ resp' = Response("edit_comment", actor, method, post_id,
                              comment_id, 0, "NotFound", 0, NoPage)
          /\ UNCHANGED store
     ELSE IF not_comment_author(actor, comment_id)
     THEN /\ resp' = Response("edit_comment", actor, method, post_id,
                              comment_id, 0, "RedirectDetail", post_id, NoPage)
          /\ UNCHANGED store
     ELSE IF method = "POST"
     THEN \E form \in CommentForms :
     IF CommentForm_is_valid(form)
     THEN /\ comments' = [comments EXCEPT ![comment_id].text = form.text]
          /\ resp' = Response("edit_comment", actor, method, post_id,
                              comment_id, 0, "RedirectDetail", post_id, NoPage)
          /\ UNCHANGED <<users, categories, locations, posts, next_post_id,
                         next_comment_id>>
     ELSE /\ resp' = Response("edit_comment", actor, method, post_id,
                              comment_id, 0, "Render", 0, NoPage)
          /\ UNCHANGED store
     ELSE /\ resp' = Response("edit_comment", actor, method, post_id,
                              comment_id, 0, "Render", 0, NoPage)
          /\ UNCHANGED store
  /\ UNCHANGED now

\* delete_post; a method that is neither GET nor POST falls off the end of the
\* view, which returns None: Django answers with a server error
delete_post(actor, method, post_id) ==
  /\ IF ~login_required(actor)
     THEN /\ resp' = Response("delete_post", actor, method, post_id, 0, 0,
                              "RedirectLogin", 0, NoPage)
          /\ UNCHANGED store
     ELSE IF post_id \notin DOMAIN posts
     THEN /\ resp' = Response("delete_post", actor, method, post_id, 0, 0,
                              "NotFound", 0, NoPage)
          /\ UNCHANGED store
     ELSE IF not_post_author(actor, post_id)
     THEN /\ resp' = Response("delete_post", actor, method, post_id, 0, 0,
                              "RedirectDetail", post_id, NoPage)
          /\ UNCHANGED store
     ELSE IF method = "GET"
     THEN /\ resp' = Response("delete_post", actor, method, post_id, 0, 0,
                              "Render", 0, NoPage)
          /\ UNCHANGED store
     ELSE IF method = "POST"
     THEN /\ posts' = Keep(posts, DOMAIN posts \ {post_id})
          /\ comments' = Keep(comments, DOMAIN comments
                                          \ CommentsOfPosts({post_id}))
          /\ resp' = Response("delete_post", actor, method, post_id, 0, 0,
                              "RedirectProfile", username_of(actor), NoPage)
          /\ UNCHANGED <<users, categories, locations, next_post_id, next_comment_id>>
     ELSE /\ resp' = Response("delete_post", actor, method, post_id, 0, 0,
                              "ServerError", 0, NoPage)
          /\ UNCHANGED store
  /\ UNCHANGED now

\* delete_comment
delete_comment(actor, method, post_id, comment_id) ==
  /\ IF ~login_required(actor)
     THEN /\ resp' = Response("delete_comment", actor, method, post_id,
                              comment_id, 0, "RedirectLogin", 0, NoPage)
          /\ UNCHANGED store
     ELSE IF comment_id \notin DOMAIN comments \/ post_id \notin DOMAIN posts
     THEN /\ resp' = Response("delete_comment", actor, method, post_id,
                              comment_id, 0, "NotFound", 0, NoPage)
          /\ UNCHANGED store
     ELSE IF not_comment_author(actor, comment_id)
     THEN /\ resp' = Response("delete_comment", actor, method, post_id,
                              comment_id, 0, "RedirectDetail", post_id, NoPage)
          /\ UNCHANGED store
     ELSE IF method = "GET"
     THEN /\ resp' = Response("delete_comment", actor, method, post_id,
                              comment_id, 0, "Render", 0, NoPage)
          /\ UNCHANGED store
     ELSE IF method = "POST"
     THEN /\ comments' = Keep(comments, DOMAIN comments \ {comment_id})
          /\ resp' = Response("delete_comment", actor, method, post_id,
                              comment_id, 0, "RedirectDetail", post_id, NoPage)
          /\ UNCHANGED <<users, categories, locations, posts, next_post_id,
                         next_comment_id>>
     ELSE /\ resp' = Response("delete_comment", actor, method, post_id,
                              comment_id, 0, "ServerError", 0, NoPage)
          /\ UNCHANGED store
  /\ UNCHANGED now

\* edit_profile
edit_profile(actor, method) ==
  /\ IF ~login_required(actor)
     THEN /\ resp' = Response("edit_profile", actor, method, 0, 0, 0,
                              "RedirectLogin", 0, NoPage)
          /\ UNCHANGED store
     ELSE IF method = "POST"
     THEN \E form \in ProfileEditForms :
     IF ProfileEditForm_is_valid(actor, form)
     THEN /\ users' = [users EXCEPT ![actor] = form.username]
          /\ resp' = Response("edit_profile", actor, method, 0, 0, 0,
                              "RedirectProfile", form.username, NoPage)
          /\ UNCHANGED <<categories, locations, posts, comments, next_post_id,
                         next_comment_id>>
     ELSE /\ resp' = Response("edit_profile", actor, method, 0, 0, 0,
                              "Render", 0, NoPage)
          /\ UNCHANGED store
     ELSE /\ resp' = Response("edit_profile", actor, method, 0, 0, 0,
                              "Render", 0, NoPage)
          /\ UNCHANGED store
  /\ UNCHANGED now

\* ------------------------------------------------------------- post_detail
\* An author check that takes any authenticated user for the author
is_author_any_user(actor, id) == is_authenticated(actor)

\* is_author = request.user.is_authenticated and request.user == post.author
is_author(actor, id) == is_authenticated(actor) /\ actor = posts[id].author

\* post.is_published and post.pub_date <= timezone.now()
\*   and post.category.is_published
\* evaluated left to right: "Error" is the AttributeError that reading
\* is_published of a None category raises
post_is_public(id) ==
  IF ~posts[id].is_published THEN "False"
  ELSE IF ~(posts[id].pub_date <= now) THEN "False"
  ELSE IF posts[id].category = NULL THEN "Error"
  ELSE IF ~categories[posts[id].category].is_published THEN "False"
  ELSE "True"

\* The outcome of post_detail for a stored post
post_detail_outcome(actor, id) ==
  IF is_author(actor, id) THEN "Render"
  ELSE IF post_is_public(id) = "Error" THEN "ServerError"
  ELSE IF post_is_public(id) = "False" THEN "NotFound"
  ELSE "Render"

\* post_detail
post_detail(actor, id) ==
  /\ resp' = Response("post_detail", actor, "GET", id, 0, 0,
                      IF id \notin DOMAIN posts THEN "NotFound"
                      ELSE post_detail_outcome(actor, id),
                      0, NoPage)
  /\ UNCHANGED <<store, now>>

\* ---------------------------------------------------------------- listings
\* A listing that paginates every post and filters the page afterwards
page_obj_filter_last(qs, param, tie) ==
  LET pg == get_page(order_by_pub_date(DOMAIN posts, tie), param)
  IN  [pg EXCEPT !.param = param,
                 !.object_list = SelectSeq(pg.object_list,
                                           LAMBDA p : p \in qs)]

\* The page_obj of a listing: the queryset ordered, paginated, and the page
\* that request.GET.get('page') asks for
page_obj(qs, param, tie) ==
  [get_page(order_by_pub_date(qs, tie), param) EXCEPT !.param = param]

\* index
index(actor, param, tie) ==
  /\ resp' = Response("index", actor, "GET", 0, 0, 0, "Render", 0,
                      page_obj(PublishedManager, param, tie))
  /\ UNCHANGED <<store, now>>

\* Post.published.filter(category=category)
published_in_category(c) == {p \in PublishedManager : posts[p].category = c}

\* category_posts; the slug of a category is modelled by its id
category_posts(actor, category_slug, param, tie) ==
  /\ IF category_slug \notin DOMAIN categories
     THEN resp' = Response("category_posts", actor, "GET", 0, 0, category_slug,
                           "NotFound", 0, NoPage)
     ELSE IF ~categories[category_slug].is_published
     THEN resp' = Response("category_posts", actor, "GET", 0, 0, category_slug,
                           "NotFound", 0, NoPage)
     ELSE resp' = Response("category_posts", actor, "GET", 0, 0, category_slug,
                           "Render", 0,
                           page_obj(published_in_category(category_slug),
                                    param, tie))
  /\ UNCHANGED <<store, now>>

\* get_object_or_404(User, username=username): the users of that name
users_named(username) == {u \in DOMAIN users : users[u] = username}

\* A profile page that filters the owner's posts like anyone else's
profile_posts_published_only(actor, user) ==
  {p \in PublishedManager : posts[p].author = user}

\* A profile page that shows every post of the user to every viewer
profile_posts_all_for_anyone(actor, user) ==
  {p \in DOMAIN posts : posts[p].author = user}

\* owner = request.user == user; Post.objects.filter(author=user) for the
\* owner, Post.published.filter(author=user) for anyone else
profile_posts(actor, user) ==
  IF actor = user
  THEN {p \in DOMAIN posts : posts[p].author = user}
  ELSE {p \in PublishedManager : posts[p].author = user}

\* profile
profile(actor, username, param, tie) ==
  /\ IF users_named(username) = {}
     THEN resp' = Response("profile", actor, "GET", 0, 0, username,
                           "NotFound", 0, NoPage)
     ELSE LET user == CHOOSE u \in users_named(username) : TRUE
          IN  resp' = Response("profile", actor, "GET", 0, 0, username,
                               "Render", 0,
                               page_obj(profile_posts(actor, user), param, tie))
  /\ UNCHANGED <<store, now>>

\* The response is returned: return render(...), return redirect(...), or the
\* error page of a raised Http404 or an unhandled exception
Deliver ==
  /\ ~Idle
  /\ resp' = NoResponse
  /\ UNCHANGED <<store, now>>

\* ------------------------------------------------- the datastore, directly
\* CategoryAdmin: is_published is editable in the admin
admin_set_category_published(c, b) ==
  /\ c \in DOMAIN categories
  /\ categories[c].is_published # b
  /\ categories' = [categories EXCEPT ![c].is_published = b]
  /\ UNCHANGED <<users, locations, posts, comments, next_post_id,
                 next_comment_id, now, resp>>

\* A Post.category that cascades: the posts of the category go with it
admin_delete_category_cascade(c) ==
  /\ c \in DOMAIN categories
  /\ categories' = Keep(categories, DOMAIN categories \ {c})
  /\ posts' = Keep(posts, {p \in DOMAIN posts : posts[p].category # c})
  /\ UNCHANGED <<users, locations, comments, next_post_id, next_comment_id,
                 now, resp>>

\* Deleting a Category: Post.category is on_delete=models.SET_NULL
admin_delete_category(c) ==
  /\ c \in DOMAIN categories
  /\ categories' = Keep(categories, DOMAIN categories \ {c})
  /\ posts' = [p \in DOMAIN posts |->
                 IF posts[p].category = c
                 THEN [posts[p] EXCEPT !.category = NULL] ELSE posts[p]]
  /\ UNCHANGED <<users, locations, comments, next_post_id, next_comment_id,
                 now, resp>>

\* Deleting a Location: Post.location is on_delete=models.SET_NULL
admin_delete_location(l) ==
  /\ l \in DOMAIN locations
  /\ locations' = Keep(locations, DOMAIN locations \ {l})
  /\ posts' = [p \in DOMAIN posts |->
                 IF posts[p].location = l
                 THEN [posts[p] EXCEPT !.location = NULL] ELSE posts[p]]
  /\ UNCHANGED <<users, categories, comments, next_post_id, next_comment_id,
                 now, resp>>

\* Deleting a User: Post.author and Comment.author are on_delete=models.CASCADE,
\* and so is Comment.post
admin_delete_user(u) ==
  /\ u \in DOMAIN users
  /\ LET gone == {p \in DOMAIN posts : posts[p].author = u}
     IN  /\ posts' = Keep(posts, DOMAIN posts \ gone)
         /\ comments' = Keep(comments,
                             {c \in DOMAIN comments :
                                /\ comments[c].author # u
                                /\ comments[c].post \notin gone})
  /\ users' = Keep(users, DOMAIN users \ {u})
  /\ UNCHANGED <<categories, locations, next_post_id, next_comment_id, now, resp>>

\* timezone.now() advances
Tick ==
  /\ now < MaxTime
  /\ now' = now + 1
  /\ UNCHANGED <<store, resp>>

\* Requests are handled one at a time, each against the store as it is: a
\* request, or a change made to the datastore directly, starts when no
\* response is pending
Next ==
  \/ Idle /\ \E a \in Actors, m \in Methods : create_post(a, m)
  \/ Idle /\ \E a \in Actors, m \in Methods, p \in PostIds : edit_post(a, m, p)
  \/ Idle /\ \E a \in Actors, m \in Methods, p \in PostIds :
       delete_post(a, m, p)
  \/ Idle /\ \E a \in Actors, m \in Methods, p \in PostIds :
       add_comment(a, m, p)
  \/ Idle /\ \E a \in Actors, m \in Methods, p \in PostIds, c \in CommentIds :
       edit_comment(a, m, p, c)
  \/ Idle /\ \E a \in Actors, m \in Methods, p \in PostIds, c \in CommentIds :
       delete_comment(a, m, p, c)
  \/ Idle /\ \E a \in Actors, m \in Methods : edit_profile(a, m)
  \/ Idle /\ \E a \in Actors, p \in PostIds : post_detail(a, p)
  \/ Idle /\ \E a \in Actors, q \in PageParams, t \in TieOrders : index(a, q, t)
  \/ Idle /\ \E a \in Actors, c \in CategoryIds, q \in PageParams,
                t \in TieOrders : category_posts(a, c, q, t)
  \/ Idle /\ \E a \in Actors, n \in Usernames, q \in PageParams,
                t \in TieOrders : profile(a, n, q, t)
  \/ Idle /\ \E c \in CategoryIds, b \in BOOLEAN :
       admin_set_category_published(c, b)
  \/ Idle /\ \E c \in CategoryIds : admin_delete_category(c)
  \/ Idle /\ \E u \in UserIds : admin_delete_user(u)
  \/ Idle /\ Tick
  \/ Deliver

Spec == Init /\ [][Next]_vars

\* ----------------------------------------------- listings over long tables
\* A store of n posts for the listings to page through: authors alternate
\* (or all posts are the first user's), pub_date cycles through Times, and
\* every fourth post is hidden the way hide says
HideModes == {"none", "unpublished", "null_category", "category"}

ListPost(i, hide, solo) ==
  [author |-> IF solo THEN 1 ELSE 1 + (i % MaxUsers),
   is_published |-> ~(hide = "unpublished" /\ i % 4 = 0),
   pub_date |-> 1 + (i % MaxTime),
   category |-> IF hide = "null_category" /\ i % 4 = 0 THEN NULL ELSE 1,
   location |-> NULL]

InitList ==
  \E n \in 0..MaxListPosts, hide \in HideModes, solo \in BOOLEAN, t \in Times :
    /\ users = [u \in UserIds |-> u]
    /\ categories = [c \in CategoryIds |-> [is_published |-> hide # "category"]]
    /\ locations = <<>>
    /\ posts = [i \in 1..n |-> ListPost(i, hide, solo)]
    /\ comments = <<>>
    /\ next_post_id = n + 1
    /\ next_comment_id = 1
    /\ now = t
    /\ resp = NoResponse

NextList ==
  \/ Idle /\ \E a \in Actors, q \in PageParams, t \in TieOrders : index(a, q, t)
  \/ Idle /\ \E a \in Actors, c \in CategoryIds, q \in PageParams,
                t \in TieOrders : category_posts(a, c, q, t)
  \/ Idle /\ \E a \in Actors, n \in Usernames, q \in PageParams,
                t \in TieOrders : profile(a, n, q, t)
  \/ Idle /\ Tick
  \/ Deliver

SpecList == InitList /\ [][NextList]_vars

\* --------------------------------------------- a store that holds locations
\* The store after setup, with the Location rows the admin has entered
InitRefs ==
  /\ users = [u \in UserIds |-> u]
  /\ categories = [c \in CategoryIds |-> [is_published |-> TRUE]]
  /\ locations = [l \in LocationIds |-> [is_published |-> TRUE]]
  /\ posts = <<>>
  /\ comments = <<>>
  /\ next_post_id = 1
  /\ next_comment_id = 1
  /\ now = 1
  /\ resp = NoResponse

\* Posts are written, commented and deleted while the admin deletes the rows
\* they refer to
NextRefs ==
  \/ Idle /\ \E a \in Actors, m \in Methods : create_post(a, m)
  \/ Idle /\ \E a \in Actors, m \in Methods, p \in PostIds : edit_post(a, m, p)
  \/ Idle /\ \E a \in Actors, m \in Methods, p \in PostIds :
       delete_post(a, m, p)
  \/ Idle /\ \E a \in Actors, m \in Methods, p \in PostIds :
       add_comment(a, m, p)
  \/ Idle /\ \E c \in CategoryIds : admin_delete_category(c)
  \/ Idle /\ \E l \in LocationIds : admin_delete_location(l)
  \/ Idle /\ \E u \in UserIds : admin_delete_user(u)
  \/ Deliver

SpecRefs == InitRefs /\ [][NextRefs]_vars

\* ------------------------------------------------------------------ claims
Range(seq) == {seq[i] : i \in 1..Len(seq)}

\* The claims' words, written out over the store
CategoryIsPublished(p) ==
  /\ posts[p].category # NULL
  /\ posts[p].category \in DOMAIN categories
  /\ categories[posts[p].category].is_published

PubliclyVisible(p) ==
  /\ posts[p].is_published
  /\ CategoryIsPublished(p)
  /\ posts[p].pub_date <= now

PublicPosts == {p \in DOMAIN posts : PubliclyVisible(p)}

\* isVisible(actor, post) of section 4.1
VisibleTo(actor, p) ==
  \/ actor # Anonymous /\ actor = posts[p].author
  \/ PubliclyVisible(p)

IsListing == resp.h \in {"index", "category_posts", "profile"}
             /\ resp.out = "Render"

\* The posts a listing chooses from: all of them (feed), those of the
\* category (category page), those of the user (profile page)
Candidates ==
  CASE resp.h = "index" -> DOMAIN posts
    [] resp.h = "category_posts" ->
         {p \in DOMAIN posts : posts[p].category = resp.name}
    [] resp.h = "profile" ->
         {p \in DOMAIN posts : users[posts[p].author] = resp.name}
    [] OTHER -> {}

\* The pages 1..num_pages of the feed, put together
FeedOverAllPages(tie) ==
  UNION {Range(page_obj(PublishedManager, [is_int |-> TRUE, n |-> k],
                        tie).object_list) :
           k \in 1..num_pages(order_by_pub_date(PublishedManager, tie))}

\* C1: the feed offers an anonymous viewer, over all its pages, exactly the
\* posts that are published, in a published category and not dated in the
\* future; the page returned holds only such posts and counts all of them.
C1_FeedIsThePublicPosts ==
  (resp.h = "index" /\ resp.actor = Anonymous) =>
     /\ resp.out = "Render"
     /\ Range(resp.page.object_list) \subseteq PublicPosts
     /\ resp.page.count = Cardinality(PublicPosts)
     /\ \A t \in TieOrders : FeedOverAllPages(t) = PublicPosts

\* A feed served to an anonymous viewer that lists a post and leaves out a
\* published post of a published category dated in the future
C1_Witness ==
  /\ resp.h = "index" /\ resp.actor = Anonymous
  /\ resp.page.object_list # <<>>
  /\ \E p \in DOMAIN posts :
       /\ posts[p].is_published /\ CategoryIsPublished(p)
       /\ posts[p].pub_date > now
       /\ p \notin Range(resp.page.object_list)

\* C2: post_detail of a stored post that has a category is rendered iff the
\* actor is its authenticated author or the post is publicly visible, and is
\* answered NotFound otherwise.
C2_DetailVisibility ==
  (/\ resp.h = "post_detail"
   /\ resp.post_id \in DOMAIN posts
   /\ posts[resp.post_id].category # NULL) =>
     /\ resp.out \in {"Render", "NotFound"}
     /\ resp.out = "Render" <=> VisibleTo(resp.actor, resp.post_id)

\* The author is served their own post that is not published
C2_Witness ==
  /\ resp.h = "post_detail"
  /\ resp.post_id \in DOMAIN posts
  /\ posts[resp.post_id].category # NULL
  /\ resp.actor = posts[resp.post_id].author
  /\ ~posts[resp.post_id].is_published
  /\ resp.out = "Render"

\* C3: a post whose category is NULL is answered NotFound by post_detail to
\* everyone but its author, whatever its is_published and pub_date, and is in
\* no feed or category listing.
C3_NullCategoryIsNotFound ==
  /\ (/\ resp.h = "post_detail"
      /\ resp.post_id \in DOMAIN posts
      /\ posts[resp.post_id].category = NULL
      /\ resp.actor # posts[resp.post_id].author) => resp.out = "NotFound"
  /\ (resp.h \in {"index", "category_posts"} /\ resp.out = "Render") =>
        \A p \in Range(resp.page.object_list) : posts[p].category # NULL

\* The user whose profile page the response is
ProfileUser == CHOOSE u \in DOMAIN users : users[u] = resp.name

\* C4 as claimed: every listing includes the posts of the authenticated viewer
\* among those it chooses from, whatever their publication fields.
C4_AuthorSeesOwnPostsInEveryListing ==
  (IsListing /\ resp.actor # Anonymous /\ resp.page.num_pages = 1) =>
     \A p \in Candidates :
        posts[p].author = resp.actor => p \in Range(resp.page.object_list)

\* C4, amended: only the profile page makes the exception for the author. The
\* viewer's own profile page lists every post of theirs, whatever its
\* publication fields; the feed and the category page list the publicly
\* visible posts among those they choose from and no other, whoever views.
C4_AuthorSeesOwnPostsOnOwnProfile ==
  (IsListing /\ resp.page.num_pages = 1) =>
     /\ (resp.h = "profile" /\ resp.actor # Anonymous
         /\ users[resp.actor] = resp.name) =>
           Range(resp.page.object_list) = Candidates
     /\ resp.h \in {"index", "category_posts"} =>
           Range(resp.page.object_list) = Candidates \cap PublicPosts

\* The owner's profile page lists a post of theirs that is not publicly
\* visible
C4_Witness ==
  /\ resp.h = "profile" /\ resp.out = "Render"
  /\ resp.actor # Anonymous /\ users[resp.actor] = resp.name
  /\ \E p \in Range(resp.page.object_list) : ~PubliclyVisible(p)

\* The page a listing returned, against the ordered result set it paginates:
\* number is the page that should come back for the requested number
IsPageOf(items, number) ==
  /\ resp.page.number = number
  /\ resp.page.count = Len(items)
  /\ resp.page.object_list =
       [i \in 1..(IF number * PER_PAGE <= Len(items) THEN PER_PAGE
                  ELSE IF (number - 1) * PER_PAGE >= Len(items) THEN 0
                  ELSE Len(items) - (number - 1) * PER_PAGE) |->
          items[(number - 1) * PER_PAGE + i]]

\* ceil(count / 10), and 1 for an empty result set
LastPage(items) ==
  IF Len(items) = 0 THEN 1
  ELSE IF Len(items) % PER_PAGE = 0 THEN Len(items) \div PER_PAGE
  ELSE Len(items) \div PER_PAGE + 1

\* The result set the listing paginates
ListedSet ==
  CASE resp.h = "index" -> PublishedManager
    [] resp.h = "category_posts" -> published_in_category(resp.name)
    [] resp.h = "profile" -> profile_posts(resp.actor, ProfileUser)
    [] OTHER -> {}

\* C5 as claimed: a page number n <= 0 returns page 1, n above the last page
\* returns the last page, and any other n returns the slice of page n.
C5_PageIsClampedToNearest ==
  (IsListing /\ resp.page.param.is_int) =>
     \E t \in TieOrders :
        LET items == order_by_pub_date(ListedSet, t)
            n == resp.page.param.n
        IN  IsPageOf(items, IF n <= 0 THEN 1
                            ELSE IF n > LastPage(items) THEN LastPage(items)
                            ELSE n)

\* C5, amended: pagination never fails; a page number n <= 0 or above the
\* last page returns the last page, a missing or non-numeric page returns
\* page 1, and 1 <= n <= last returns the slice [(n-1)*10, n*10).
C5_PageOutOfRangeIsLastPage ==
  /\ resp.h = "index" => resp.out = "Render"
  /\ IsListing =>
       \E t \in TieOrders :
          LET items == order_by_pub_date(ListedSet, t)
              n == resp.page.param.n
          IN  IsPageOf(items, IF ~resp.page.param.is_int THEN 1
                              ELSE IF n <= 0 \/ n > LastPage(items)
                                   THEN LastPage(items)
                              ELSE n)

\* A listing of two pages asked for page 0 returns page 2
C5_Witness ==
  /\ IsListing
  /\ resp.page.param.is_int /\ resp.page.param.n = 0
  /\ resp.page.num_pages = 2
  /\ resp.page.number = 2
  /\ Len(resp.page.object_list) > 0

\* The page sizes of a listing: full pages before the last, and a last page
\* that is empty only when the listing as a whole is
PageSizesFit(total) ==
  /\ resp.page.number < resp.page.num_pages =>
       Len(resp.page.object_list) = PER_PAGE
  /\ resp.page.number = resp.page.num_pages =>
       /\ Len(resp.page.object_list) <= PER_PAGE
       /\ Len(resp.page.object_list) = 0 <=> total = 0
  /\ resp.page.count = total

\* C6 as claimed: every page but the last holds 10 posts, all visible to the
\* viewer, the last holds 1 to 10 (0 only when nothing is visible), and the
\* total count is the number of posts visible to the viewer.
C6_PagesHoldTheVisiblePosts ==
  IsListing =>
     /\ \A p \in Range(resp.page.object_list) : VisibleTo(resp.actor, p)
     /\ PageSizesFit(Cardinality({p \in Candidates : VisibleTo(resp.actor, p)}))

\* The posts that pass the filter of the listing: the publicly visible ones,
\* and on the viewer's own profile page every post of theirs
PassesFilter(p) ==
  \/ PubliclyVisible(p)
  \/ resp.h = "profile" /\ resp.actor # Anonymous
       /\ users[resp.actor] = resp.name

\* C6, amended: the filter is applied before ordering and pagination. Every
\* page but the last holds 10 posts, all visible to the viewer and all
\* passing the listing's filter, the last holds 1 to 10 (0 only when nothing
\* passes the filter), and the total count is the number of posts that pass
\* the filter: the publicly visible ones, and on the viewer's own profile page
\* every post of theirs.
C6_PagesHoldTheFilteredPosts ==
  IsListing =>
     /\ \A p \in Range(resp.page.object_list) :
           VisibleTo(resp.actor, p) /\ PassesFilter(p) /\ p \in Candidates
     /\ PageSizesFit(Cardinality({p \in Candidates : PassesFilter(p)}))

\* A first page of 10 posts out of 11, from a store that holds hidden posts
C6_Witness ==
  /\ IsListing
  /\ resp.page.number = 1 /\ resp.page.num_pages = 2
  /\ resp.page.count = PER_PAGE + 1
  /\ Len(resp.page.object_list) = PER_PAGE
  /\ \E p \in Candidates : ~PassesFilter(p)

\* The request just handled is by an authenticated actor who does not own the
\* post or comment it names, read off the store as it was
NonOwnerRequest ==
  /\ resp'.actor # Anonymous
  /\ \/ /\ resp'.h \in {"edit_post", "delete_post"}
        /\ resp'.post_id \in DOMAIN posts
        /\ posts[resp'.post_id].author # resp'.actor
     \/ /\ resp'.h \in {"edit_comment", "delete_comment"}
        /\ resp'.comment_id \in DOMAIN comments
        /\ comments[resp'.comment_id].author # resp'.actor

\* C7: an authenticated actor who asks to edit or delete a post or comment of
\* someone else, by any method, finds the store as it was, and is redirected
\* to the detail page of the post the request names (a stored post).
C7_NonOwnerIsRedirected ==
  [][NonOwnerRequest =>
       /\ store' = store
       /\ resp'.post_id \in DOMAIN posts =>
            resp'.out = "RedirectDetail" /\ resp'.to = resp'.post_id]_vars

\* A POST to edit_post by a user who is not the author was redirected
C7_Witness ==
  /\ resp.h = "edit_post" /\ resp.method = "POST"
  /\ resp.actor # Anonymous
  /\ resp.post_id \in DOMAIN posts
  /\ posts[resp.post_id].author # resp.actor
  /\ resp.out = "RedirectDetail"

MutatingHandlers ==
  {"create_post", "edit_post", "delete_post", "add_comment", "edit_comment",
   "delete_comment", "edit_profile"}

\* C8: a request of an unauthenticated actor to create, edit or delete is
\* redirected to the login page, and the store is as it was.
C8_AnonymousIsSentToLogin ==
  [][(resp'.h \in MutatingHandlers /\ resp'.actor = Anonymous) =>
       /\ resp'.out = "RedirectLogin"
       /\ store' = store]_vars

\* An anonymous POST to delete_post of a stored post was sent to the login
C8_Witness ==
  /\ resp.h = "delete_post" /\ resp.method = "POST"
  /\ resp.actor = Anonymous
  /\ resp.post_id \in DOMAIN posts
  /\ resp.out = "RedirectLogin"

\* C9 as claimed: a GET of delete_post or delete_comment removes nothing, and
\* these handlers remove a post or a comment only on a POST of its author.
C9_OnlyTheOwnersPostDeletes ==
  [][resp'.h \in {"delete_post", "delete_comment"} =>
       /\ resp'.method = "GET" =>
            /\ DOMAIN posts' = DOMAIN posts
            /\ DOMAIN comments' = DOMAIN comments
       /\ \A p \in DOMAIN posts \ DOMAIN posts' :
            resp'.method = "POST" /\ resp'.actor = posts[p].author
       /\ \A c \in DOMAIN comments \ DOMAIN comments' :
            resp'.method = "POST" /\ resp'.actor = comments[c].author]_vars

\* C9, amended: a GET of delete_post or delete_comment removes nothing,
\* however often it is repeated. These handlers remove a post only on a POST
\* to delete_post by its author, and a comment only on a POST to
\* delete_comment by its author or, together with its post, on a POST to
\* delete_post by the author of that post.
C9_OnlyAPostByTheOwnerDeletes ==
  [][resp'.h \in {"delete_post", "delete_comment"} =>
       /\ resp'.method # "POST" => store' = store
       /\ \A p \in DOMAIN posts \ DOMAIN posts' :
            /\ resp'.method = "POST" /\ resp'.h = "delete_post"
            /\ resp'.post_id = p /\ resp'.actor = posts[p].author
       /\ \A c \in DOMAIN comments \ DOMAIN comments' :
            /\ resp'.method = "POST"
            /\ \/ /\ resp'.h = "delete_comment"
                  /\ resp'.comment_id = c
                  /\ resp'.actor = comments[c].author
               \/ /\ resp'.h = "delete_post"
                  /\ resp'.post_id = comments[c].post
                  /\ resp'.actor = posts[comments[c].post].author]_vars

\* The author's POST to delete_post removed the post, after a comment on it
\* had been stored
C9_Witness ==
  /\ resp.h = "delete_post" /\ resp.method = "POST"
  /\ resp.out = "RedirectProfile"
  /\ resp.post_id \notin DOMAIN posts
  /\ next_comment_id > 1

\* No comment without its post and author, no post without its author
NoOrphans ==
  /\ \A c \in DOMAIN comments :
        comments[c].post \in DOMAIN posts /\ comments[c].author \in DOMAIN users
  /\ \A p \in DOMAIN posts : posts[p].author \in DOMAIN users

\* C10: after every operation each stored comment refers to a stored post and
\* a stored author and each stored post to a stored author, and a comment
\* that add_comment stores refers to the post of the request and to the actor.
C10_NoOrphans ==
  [][/\ NoOrphans'
     /\ (resp'.h = "add_comment" /\ comments' # comments) =>
          \E c \in DOMAIN comments' \ DOMAIN comments :
             /\ DOMAIN comments' = DOMAIN comments \cup {c}
             /\ comments'[c].post = resp'.post_id
             /\ comments'[c].author = resp'.actor
             /\ \A d \in DOMAIN comments : comments'[d] = comments[d]]_vars

\* add_comment stored a comment of the actor on a post of another user
C10_Witness ==
  /\ resp.h = "add_comment" /\ resp.method = "POST"
  /\ \E c \in DOMAIN comments :
       /\ comments[c].post = resp.post_id
       /\ comments[c].author = resp.actor
       /\ posts[comments[c].post].author # resp.actor
\* C11: deleting a Category or a Location deletes no post: every post is
\* still stored, a post that referred to the deleted row has that reference
\* NULL and every other field as it was, every other post is as it was, and
\* the comments are as they were.
C11_DeletedReferenceIsNull ==
  [][(DOMAIN categories' # DOMAIN categories
      \/ DOMAIN locations' # DOMAIN locations) =>
       /\ DOMAIN posts' = DOMAIN posts
       /\ comments' = comments
       /\ \A p \in DOMAIN posts :
            posts'[p] =
              [posts[p] EXCEPT
                 !.category = IF posts[p].category \in DOMAIN categories'
                              THEN posts[p].category ELSE NULL,
                 !.location = IF posts[p].location \in DOMAIN locations'
                              THEN posts[p].location ELSE NULL]]_vars

\* A commented post that lost its category (the form leaves no category
\* blank) and still has its location
C11_Witness ==
  \E p \in DOMAIN posts :
     /\ posts[p].category = NULL /\ posts[p].location # NULL
     /\ categories = <<>>
     /\ \E c \in DOMAIN comments : comments[c].post = p

PostIdHandlers == {"post_detail", "edit_post", "delete_post", "add_comment"}

\* What a handler that takes a post id answers when no post has that id
MissingPostOutcome(h, actor) ==
  IF h # "post_detail" /\ actor = Anonymous THEN "RedirectLogin"
  ELSE "NotFound"

\* C12: post_detail, edit_post, delete_post and add_comment answer a request
\* that names a stored post not visible to the actor, who is not its author,
\* as they answer the same request naming a post id that is not stored:
\* NotFound, with nothing written.
C12_HiddenPostIsAsMissing ==
  [][resp'.h \in PostIdHandlers =>
       /\ resp'.post_id \notin DOMAIN posts =>
            resp'.out = MissingPostOutcome(resp'.h, resp'.actor)
       /\ (/\ resp'.post_id \in DOMAIN posts
           /\ ~VisibleTo(resp'.actor, resp'.post_id)) =>
            /\ resp'.out = MissingPostOutcome(resp'.h, resp'.actor)
            /\ store' = store]_vars

\* C13: the profile page of user u, asked for by a username that a stored
\* user has, is rendered; for the viewer u it lists the posts authored by u,
\* all of them, and for any other viewer, anonymous or not, exactly the posts
\* of u that are published, in a published category and not dated in the
\* future; no post of another author is listed. A username that no stored
\* user has is answered NotFound.
C13_ProfileListsTheUsersPosts ==
  resp.h = "profile" =>
     IF \E u \in DOMAIN users : users[u] = resp.name
     THEN /\ resp.out = "Render"
          /\ \A p \in Range(resp.page.object_list) :
                posts[p].author = ProfileUser
          /\ LET own == {p \in DOMAIN posts : posts[p].author = ProfileUser}
                 listed == IF resp.actor = ProfileUser THEN own
                           ELSE own \cap PublicPosts
             IN  /\ resp.page.count = Cardinality(listed)
                 /\ Range(resp.page.object_list) \subseteq listed
                 /\ resp.page.num_pages = 1 =>
                      Range(resp.page.object_list) = listed
     ELSE resp.out = "NotFound"

\* The profile page of a user with a hidden and a public post, as another
\* authenticated viewer sees it: the public post alone
C13_Witness ==
  /\ resp.h = "profile" /\ resp.out = "Render"
  /\ resp.actor # Anonymous /\ resp.actor # ProfileUser
  /\ Len(resp.page.object_list) = 1
  /\ \E p \in DOMAIN posts : posts[p].author = ProfileUser
                              /\ ~PubliclyVisible(p)

\* A published post with a past pub_date inside an unpublished category
InUnpublishedCategory(p) ==
  /\ posts[p].is_published
  /\ posts[p].pub_date <= now
  /\ posts[p].category \in DOMAIN categories
  /\ ~categories[posts[p].category].is_published

\* C14: the category page is rendered iff the slug is that of a stored
\* category with is_published, whoever the actor is, and is answered NotFound
\* otherwise; a published post with a past pub_date inside an unpublished
\* category is on no page of the feed or of a category page, and post_detail
\* answers NotFound for it to everyone but its author.
C14_UnpublishedCategoryHidesItsPosts ==
  /\ resp.h = "category_posts" =>
       /\ resp.out \in {"Render", "NotFound"}
       /\ resp.out = "Render" <=>
            /\ resp.name \in DOMAIN categories
            /\ categories[resp.name].is_published
  /\ \A p \in DOMAIN posts :
       InUnpublishedCategory(p) =>
         /\ (resp.h \in {"index", "category_posts"}) =>
               p \notin Range(resp.page.object_list)
         /\ (/\ resp.h = "post_detail" /\ resp.post_id = p
             /\ resp.actor # posts[p].author) => resp.out = "NotFound"

\* The author of a published, past-dated post asks for the page of its
\* category, which is not published, and is answered NotFound
C14_Witness ==
  /\ resp.h = "category_posts" /\ resp.out = "NotFound"
  /\ \E p \in DOMAIN posts :
       /\ InUnpublishedCategory(p)
       /\ posts[p].category = resp.name
       /\ posts[p].author = resp.actor

\* C15: no request and no change of the datastore alters the author of a
\* stored post or the author or the post of a stored comment; a post comes
\* into being only by create_post, with the authenticated actor of that
\* request as its author, and a comment only by add_comment, with the actor
\* as its author and the post the request names as its post. No form field
\* sets them.
C15_OwnershipIsImmutable ==
  [][/\ \A p \in DOMAIN posts \cap DOMAIN posts' :
          posts'[p].author = posts[p].author
     /\ \A p \in DOMAIN posts' \ DOMAIN posts :
          /\ resp'.h = "create_post"
          /\ resp'.actor # Anonymous
          /\ posts'[p].author = resp'.actor
     /\ \A c \in DOMAIN comments \cap DOMAIN comments' :
          /\ comments'[c].author = comments[c].author
          /\ comments'[c].post = comments[c].post
     /\ \A c \in DOMAIN comments' \ DOMAIN comments :
          /\ resp'.h = "add_comment"
          /\ resp'.actor # Anonymous
          /\ comments'[c].author = resp'.actor
          /\ comments'[c].post = resp'.post_id]_vars

\* The author saved an edit of a post of theirs that another user has
\* commented
C15_Witness ==
  /\ resp.h = "edit_post" /\ resp.method = "POST"
  /\ resp.out = "RedirectDetail"
  /\ resp.post_id \in DOMAIN posts
  /\ posts[resp.post_id].author = resp.actor
  /\ ~posts[resp.post_id].is_published
  /\ \E c \in DOMAIN comments :
       /\ comments[c].post = resp.post_id
       /\ comments[c].author # resp.actor
       /\ comments[c].text = "b"

\* The request just handled names a stored comment and a post id that is not
\* the id of the comment's post, read off the store as it was
CommentOfAnotherPost ==
  /\ resp'.h \in {"edit_comment", "delete_comment"}
  /\ resp'.comment_id \in DOMAIN comments
  /\ comments[resp'.comment_id].post # resp'.post_id

\* C16: edit_comment and delete_comment leave the store as it was when the
\* post id of the request is not the id of the comment's post, and both
\* answer an authenticated actor NotFound when no post has that id.
C16_CommentActsWithinItsPost ==
  [][CommentOfAnotherPost =>
       /\ store' = store
       /\ (resp'.actor # Anonymous /\ resp'.post_id \notin DOMAIN posts) =>
            resp'.out = "NotFound"]_vars

\* C17: add_comment by an authenticated actor who is not the author of the
\* post, and to whom post_detail would not render it, stores no comment: the
\* comments are as they were.
C17_NoCommentOnAHiddenPost ==
  [][(/\ resp'.h = "add_comment"
      /\ resp'.actor # Anonymous
      /\ resp'.post_id \in DOMAIN posts
      /\ resp'.actor # posts[resp'.post_id].author
      /\ post_detail_outcome(resp'.actor, resp'.post_id) # "Render") =>
       comments' = comments]_vars
====
